---------------------------- MODULE Spec2Model ----------------------------
(***************************************************************************)
(* pelicanconf.py is a Python module whose body is a straight-line list of *)
(* top-level statements: one __future__ import and a series of assignments *)
(* of literals to names.  Loading the settings means executing that body   *)
(* in a module namespace.  The model executes the body statement by        *)
(* statement, in file order, and lets the body be executed again, either   *)
(* in a fresh namespace or in the namespace the previous load left behind. *)
(***************************************************************************)
EXTENDS Naturals, Sequences, FiniteSets, TLC

VARIABLES
    pc,        \* index in Program of the next statement to execute
    ns,        \* the module namespace: name -> Python value
    status,    \* "loading" while the body runs, "loaded" once it has run
    assigned,  \* targets of the assignments executed by the current load, in order
    results,   \* the namespace produced by each completed load, oldest first
    modes      \* how each load started: "fresh" or "inplace"

vars == <<pc, ns, status, assigned, results, modes>>

\* Number of times the module body is executed in one behaviour.
MaxLoads == 3

(***************************************************************************)
(* Python values, tagged by their type.                                    *)
(***************************************************************************)
PyStr(s)    == [t |-> "str", s |-> s]
PyBool(b)   == [t |-> "bool", b |-> b]
PyInt(n)    == [t |-> "int", n |-> n]
PyNone      == [t |-> "NoneType"]
PyList(xs)  == [t |-> "list", items |-> xs]
PyTuple(xs) == [t |-> "tuple", items |-> xs]
PyDict(f)   == [t |-> "dict", map |-> f]
PyFeature   == [t |-> "_Feature"]

(***************************************************************************)
(* The right-hand side of every assignment, under the name it is assigned  *)
(* to.  PATH is assigned on two lines, hence PATH_L9 and PATH_L82.         *)
(***************************************************************************)
AUTHOR   == PyStr("Kevin Givens")
SITENAME == PyStr("Lost in the Lyceum")
SITEURL  == PyStr("")
PATH_L9  == PyStr("content")
TIMEZONE == PyStr("America/New_York")
DEFAULT_LANG == PyStr("en")

FEED_ALL_ATOM_Enabled == PyStr("feeds/all.atom.xml")
FEED_ALL_ATOM         == PyNone
FEED_ALL_RSS          == PyNone
CATEGORY_FEED_ATOM    == PyNone
TRANSLATION_FEED_ATOM == PyNone
AUTHOR_FEED_ATOM      == PyNone
AUTHOR_FEED_RSS       == PyNone

DISPLAY_CATEGORIES_ON_MENU == PyBool(FALSE)

SOCIAL_EmptyUrl ==
    PyTuple(<< PyTuple(<<PyStr("twitter"), PyStr("https://twitter.com/kevinmgivens")>>),
               PyTuple(<<PyStr("linkedin"), PyStr("")>>),
               PyTuple(<<PyStr("github"), PyStr("https://github.com/kevingivens")>>) >>)
SOCIAL_Mixed ==
    PyTuple(<< PyTuple(<<PyStr("twitter"), PyStr("https://twitter.com/kevinmgivens")>>),
               PyStr("linkedin"),
               PyTuple(<<PyStr("github"), PyStr("https://github.com/kevingivens")>>) >>)
SOCIAL ==
    PyTuple(<< PyTuple(<<PyStr("twitter"), PyStr("https://twitter.com/kevinmgivens")>>),
               PyTuple(<<PyStr("linkedin"),
                         PyStr("https://www.linkedin.com/pub/kevin-m-givens/47/844/275")>>),
               PyTuple(<<PyStr("github"), PyStr("https://github.com/kevingivens")>>) >>)

DISPLAY_CATEGORIES_ON_SIDEBAR == PyBool(TRUE)
DEFAULT_PAGINATION == PyInt(10)

PLUGIN_PATHS == PyList(<<PyStr("../pelican-plugins")>>)
PLUGINS_NoSearch ==
    PyList(<<PyStr("i18n_subsites"), PyStr("liquid_tags.notebook"), PyStr("render_math")>>)
PLUGINS ==
    PyList(<<PyStr("i18n_subsites"), PyStr("tipue_search"),
             PyStr("liquid_tags.notebook"), PyStr("render_math")>>)
JINJA_ENVIRONMENT ==
    PyDict("extensions" :> PyList(<<PyStr("jinja2.ext.i18n")>>))

THEME            == PyStr("../pelican-themes/pelican-bootstrap3")
THEME_STATIC_DIR == PyStr("theme")
PATH_L82_Other   == PyStr("output")
PATH_L82         == PyStr("content")
STATIC_PATHS     == PyList(<<PyStr("blog"), PyStr("pages"), PyStr("images")>>)
ARTICLE_PATHS    == PyList(<<PyStr("blog")>>)

BOOTSTRAP_THEME == PyStr("flatly")
FAVICON         == PyStr("theme/images/icons/favicon.ico")
HIDE_SIDEBAR_Quoted == PyStr("False")
HIDE_SIDEBAR    == PyBool(FALSE)
PYGMENTS_STYLE  == PyStr("paraiso-dark")
USE_OPEN_GRAPH  == PyBool(TRUE)
TWITTER_USERNAME  == PyStr("kevinmgivens")
TWITTER_WIDGET_ID == PyBool(FALSE)
DIRECT_TEMPLATES ==
    PyTuple(<<PyStr("index"), PyStr("categories"), PyStr("authors"),
              PyStr("archives"), PyStr("search")>>)

(***************************************************************************)
(* The module body: its statements in file order, each with its line.      *)
(***************************************************************************)
Import(l, n, v) == [line |-> l, kind |-> "import", name |-> n, value |-> v]
Assign(l, n, v) == [line |-> l, kind |-> "assign", name |-> n, value |-> v]

Program ==
    << Import(3, "unicode_literals", PyFeature),
       Assign(5, "AUTHOR", AUTHOR),
       Assign(6, "SITENAME", SITENAME),
       Assign(7, "SITEURL", SITEURL),
       Assign(9, "PATH", PATH_L9),
       Assign(11, "TIMEZONE", TIMEZONE),
       Assign(13, "DEFAULT_LANG", DEFAULT_LANG),
       Assign(16, "FEED_ALL_ATOM", FEED_ALL_ATOM),
       Assign(17, "FEED_ALL_RSS", FEED_ALL_RSS),
       Assign(18, "CATEGORY_FEED_ATOM", CATEGORY_FEED_ATOM),
       Assign(19, "TRANSLATION_FEED_ATOM", TRANSLATION_FEED_ATOM),
       Assign(20, "AUTHOR_FEED_ATOM", AUTHOR_FEED_ATOM),
       Assign(21, "AUTHOR_FEED_RSS", AUTHOR_FEED_RSS),
       Assign(31, "DISPLAY_CATEGORIES_ON_MENU", DISPLAY_CATEGORIES_ON_MENU),
       Assign(47, "SOCIAL", SOCIAL),
       Assign(55, "DISPLAY_CATEGORIES_ON_SIDEBAR", DISPLAY_CATEGORIES_ON_SIDEBAR),
       Assign(68, "DEFAULT_PAGINATION", DEFAULT_PAGINATION),
       Assign(72, "PLUGIN_PATHS", PLUGIN_PATHS),
       Assign(73, "PLUGINS", PLUGINS),
       Assign(75, "JINJA_ENVIRONMENT", JINJA_ENVIRONMENT),
       Assign(79, "THEME", THEME),
       Assign(80, "THEME_STATIC_DIR", THEME_STATIC_DIR),
       Assign(82, "PATH", PATH_L82),
       Assign(83, "STATIC_PATHS", STATIC_PATHS),
       Assign(84, "ARTICLE_PATHS", ARTICLE_PATHS),
       Assign(89, "BOOTSTRAP_THEME", BOOTSTRAP_THEME),
       Assign(90, "FAVICON", FAVICON),
       Assign(92, "HIDE_SIDEBAR", HIDE_SIDEBAR),
       Assign(103, "PYGMENTS_STYLE", PYGMENTS_STYLE),
       Assign(122, "USE_OPEN_GRAPH", USE_OPEN_GRAPH),
       Assign(129, "TWITTER_USERNAME", TWITTER_USERNAME),
       Assign(130, "TWITTER_WIDGET_ID", TWITTER_WIDGET_ID),
       Assign(133, "DIRECT_TEMPLATES", DIRECT_TEMPLATES) >>

NumStatements == Len(Program)

(***************************************************************************)
(* Executing one statement binds its name in the namespace; a name that is *)
(* already bound is rebound to the new value.                              *)
(***************************************************************************)
EmptyNamespace == <<>>

\* A statement that extends a sequence already bound to the name (as += would).
Exec_Accumulate(env, st) ==
    IF st.name \in DOMAIN env /\ st.value.t = "list" /\ env[st.name].t = "list"
    THEN (st.name :> PyList(env[st.name].items \o st.value.items)) @@ env
    ELSE (st.name :> st.value) @@ env

Exec(env, st) == (st.name :> st.value) @@ env

\* The namespace after executing the statements prog in order, starting from env.
RECURSIVE Load(_, _)
Load(env, prog) ==
    IF prog = <<>> THEN env ELSE Load(Exec(env, Head(prog)), Tail(prog))

(***************************************************************************)
(* The loader.                                                             *)
(***************************************************************************)
Init ==
    /\ pc = 1
    /\ ns = EmptyNamespace
    /\ status = "loading"
    /\ assigned = <<>>
    /\ results = <<>>
    /\ modes = <<"fresh">>

\* Execute the next statement of the body.
ExecNext ==
    /\ status = "loading"
    /\ pc <= NumStatements
    /\ ns' = Exec(ns, Program[pc])
    /\ assigned' = IF Program[pc].kind = "assign"
                   THEN Append(assigned, Program[pc].name)
                   ELSE assigned
    /\ pc' = pc + 1
    /\ UNCHANGED <<status, results, modes>>

\* The body has run to its end: the namespace is the load's result.
FinishLoad ==
    /\ status = "loading"
    /\ pc = NumStatements + 1
    /\ status' = "loaded"
    /\ results' = Append(results, ns)
    /\ UNCHANGED <<pc, ns, assigned, modes>>

\* Execute the body again in a new, empty namespace.
ReloadFresh ==
    /\ status = "loaded"
    /\ Len(results) < MaxLoads
    /\ pc' = 1
    /\ ns' = EmptyNamespace
    /\ status' = "loading"
    /\ assigned' = <<>>
    /\ modes' = Append(modes, "fresh")
    /\ UNCHANGED results

\* Execute the body again in the namespace the previous load produced.
ReloadInPlace ==
    /\ status = "loaded"
    /\ Len(results) < MaxLoads
    /\ pc' = 1
    /\ status' = "loading"
    /\ assigned' = <<>>
    /\ modes' = Append(modes, "inplace")
    /\ UNCHANGED <<ns, results>>

Next == ExecNext \/ FinishLoad \/ ReloadFresh \/ ReloadInPlace

Spec == Init /\ [][Next]_vars

Loaded == status = "loaded"

(***************************************************************************)
(* Vocabulary of the properties.                                           *)
(***************************************************************************)
IsString(v)   == v.t = "str"
IsSequence(v) == v.t \in {"list", "tuple"}
IsNonEmptyString(v) == IsString(v) /\ v.s # ""
\* a (label, URL) pair: a sequence of exactly two strings
IsPair(v) ==
    /\ IsSequence(v)
    /\ Len(v.items) = 2
    /\ IsString(v.items[1])
    /\ IsString(v.items[2])
Contains(v, s) == \E i \in DOMAIN v.items : v.items[i] = PyStr(s)

\* The shape of a value, in the words of the data model.
Shape(v) ==
    CASE v.t = "str"      -> "string"
      [] v.t = "bool"     -> "boolean"
      [] v.t = "int"      -> "integer"
      [] v.t = "dict"     -> "mapping"
      [] v.t = "NoneType" -> "none"
      [] IsSequence(v) /\ (\A i \in DOMAIN v.items : IsPair(v.items[i]))   -> "pairs"
      [] IsSequence(v) /\ (\A i \in DOMAIN v.items : IsString(v.items[i])) -> "strings"
      [] OTHER            -> "other"

DeclaredShapes == {"string", "boolean", "integer", "pairs", "mapping"}
ActualShapes   == DeclaredShapes \cup {"none", "strings"}

\* The names the current load has assigned so far.
AssignedNames == {assigned[i] : i \in DOMAIN assigned}

FeedToggles ==
    {"FEED_ALL_ATOM", "FEED_ALL_RSS", "CATEGORY_FEED_ATOM",
     "TRANSLATION_FEED_ATOM", "AUTHOR_FEED_ATOM", "AUTHOR_FEED_RSS"}
BooleanOptions ==
    {"DISPLAY_CATEGORIES_ON_MENU", "DISPLAY_CATEGORIES_ON_SIDEBAR",
     "HIDE_SIDEBAR", "USE_OPEN_GRAPH"}

\* The positions in Program of the assignments to PATH.
PathAssignments ==
    {i \in DOMAIN Program : Program[i].kind = "assign" /\ Program[i].name = "PATH"}
\* The sequence s without its i-th element.
RemoveAt(s, i) == SubSeq(s, 1, i - 1) \o SubSeq(s, i + 1, Len(s))

(***************************************************************************)
(* C1 as stated: every setting the load has assigned holds a string, a     *)
(* boolean, an integer, a sequence of (label, URL) pairs or a mapping.     *)
(* The feed settings hold None and the path, plugin and template settings  *)
(* hold sequences of plain strings, so this is violated.                   *)
(***************************************************************************)
C1_DeclaredShapesOnly ==
    \A n \in AssignedNames : Shape(ns[n]) \in DeclaredShapes

(***************************************************************************)
(* C1 amended: every setting the load has assigned holds a string, a       *)
(* boolean, an integer, None, a sequence of strings, a sequence of         *)
(* (label, URL) pairs or a mapping of sub-options.                         *)
(***************************************************************************)
C1_ActualShapesOnly ==
    \A n \in AssignedNames : Shape(ns[n]) \in ActualShapes

C1_Witness ==
    /\ Loaded
    /\ \A sh \in ActualShapes : \E n \in AssignedNames : Shape(ns[n]) = sh

(***************************************************************************)
(* C2: in the sequence of assignments a load executes, in file order, no   *)
(* name is the target of more than one assignment.                         *)
(***************************************************************************)
C2_UniqueKeys ==
    \A i, j \in DOMAIN assigned : i # j => assigned[i] # assigned[j]

(***************************************************************************)
(* C3: every element of SOCIAL is a pair of exactly two components, both   *)
(* non-empty strings, and SOCIAL is bound once the load is complete.       *)
(***************************************************************************)
C3_SocialWellFormed ==
    /\ Loaded => "SOCIAL" \in DOMAIN ns
    /\ "SOCIAL" \in DOMAIN ns =>
          /\ IsSequence(ns["SOCIAL"])
          /\ \A i \in DOMAIN ns["SOCIAL"].items :
                LET e == ns["SOCIAL"].items[i] IN
                /\ IsPair(e)
                /\ IsNonEmptyString(e.items[1])
                /\ IsNonEmptyString(e.items[2])

C3_Witness ==
    /\ Loaded
    /\ "SOCIAL" \in DOMAIN ns
    /\ Len(ns["SOCIAL"].items) = 3

(***************************************************************************)
(* C4: each of the display toggles and USE_OPEN_GRAPH, once bound, holds a *)
(* literal boolean; all four are bound after the load, and no name is     *)
(* bound to the string 'True' or 'False'.                                  *)
(***************************************************************************)
C4_BooleansAreLiteral ==
    /\ \A k \in BooleanOptions :
          /\ Loaded => k \in DOMAIN ns
          /\ k \in DOMAIN ns => ns[k].t = "bool" /\ ns[k].b \in BOOLEAN
    /\ \A n \in DOMAIN ns : IsString(ns[n]) => ns[n].s \notin {"True", "False"}

C4_Witness ==
    /\ Loaded
    /\ BooleanOptions \subseteq DOMAIN ns
    /\ ns["HIDE_SIDEBAR"] = PyBool(FALSE)
    /\ ns["USE_OPEN_GRAPH"] = PyBool(TRUE)

(***************************************************************************)
(* C5: every feed generation toggle, once bound, holds None, and all six   *)
(* are bound after the load: no feed output is enabled.                    *)
(***************************************************************************)
C5_FeedsDisabled ==
    \A k \in FeedToggles :
        /\ Loaded => k \in DOMAIN ns
        /\ k \in DOMAIN ns => ns[k] = PyNone

C5_Witness ==
    /\ Loaded
    /\ FeedToggles \subseteq DOMAIN ns

(***************************************************************************)
(* C6: every load after the first, whether it started from an empty        *)
(* namespace or from the namespace of the load before, produces the        *)
(* mapping the first load produced.                                        *)
(***************************************************************************)
C6_LoadIdempotent ==
    \A i \in DOMAIN results : results[i] = results[1]

C6_Witness ==
    /\ Len(results) >= 3
    /\ \E i \in 2..Len(results) : modes[i] = "fresh"
    /\ \E i \in 2..Len(results) : modes[i] = "inplace"

(***************************************************************************)
(* C9: PATH is assigned twice and the later assignment overrides the       *)
(* earlier; the loaded mapping has PATH = 'content' and is the mapping the *)
(* body produces with either one of the two PATH assignments deleted.      *)
(***************************************************************************)
C9_PathDeclarationsAgree ==
    Loaded =>
        /\ Cardinality(PathAssignments) = 2
        /\ ns["PATH"] = PyStr("content")
        /\ \A i \in PathAssignments :
              ns = Load(EmptyNamespace, RemoveAt(Program, i))

C9_Witness ==
    /\ Loaded
    /\ Len(SelectSeq(assigned, LAMBDA n : n = "PATH")) = 2

(***************************************************************************)
(* C10: in the loaded mapping, 'search' is in DIRECT_TEMPLATES only if     *)
(* 'tipue_search' is in PLUGINS, and 'i18n_subsites' is in PLUGINS only if *)
(* 'jinja2.ext.i18n' is in JINJA_ENVIRONMENT['extensions'].                *)
(***************************************************************************)
C10_PluginSettingsConsistent ==
    Loaded =>
        /\ Contains(ns["DIRECT_TEMPLATES"], "search")
              => Contains(ns["PLUGINS"], "tipue_search")
        /\ Contains(ns["PLUGINS"], "i18n_subsites")
              => /\ "extensions" \in DOMAIN ns["JINJA_ENVIRONMENT"].map
                 /\ Contains(ns["JINJA_ENVIRONMENT"].map["extensions"], "jinja2.ext.i18n")

C10_Witness ==
    /\ Loaded
    /\ Contains(ns["DIRECT_TEMPLATES"], "search")
    /\ Contains(ns["PLUGINS"], "i18n_subsites")

=============================================================================
